---------------------------- MODULE Spec2Model ----------------------------
(***************************************************************************)
(* A model of the slidestyler backend: the PPTX parser, the rule-based     *)
(* content classifier, the AI design director with its fallback, the       *)
(* redesign engine and the Flask session pipeline (upload, parse, analyze, *)
(* redesign, export, download, delete).                                    *)
(*                                                                         *)
(* Texts are sequences of one-character strings, so that lower(), strip(), *)
(* join() and the substring test `kw in text` are computed, not assumed.   *)
(***************************************************************************)
EXTENDS Integers, Sequences, FiniteSets, TLC

VARIABLES
    slide,      \* SpecClassify: the slide record handed to the classifier
    label,      \* SpecClassify: the label analyze_content_type returned for it
    calls,      \* SpecClassify: how often the classifier was applied to the slide
    given,      \* SpecSlide, SpecPlan, SpecFonts, SpecAnalyze: the arguments
    returned,   \* SpecSlide, SpecPlan, SpecFonts, SpecAnalyze: the value returned
    archive,    \* SpecParse: the file handed to PPTXParser.parse
    parsed,     \* SpecParse: the outcome of PPTXParser.parse
    sessions,   \* Spec: app.sessions, session id -> session record (or absent)
    issued,     \* Spec: the session ids uuid4 has already handed out
    disk,       \* Spec: the per-session files under UPLOAD_FOLDER / OUTPUT_FOLDER
    inflight,   \* Spec: a redesign request waiting for the Design Advisor
    last        \* Spec: the last request served and its response

vars == <<slide, label, calls, given, returned, archive, parsed, sessions, issued, disk,
          inflight, last>>

-----------------------------------------------------------------------------
(* Text: Python str as a sequence of characters.                           *)

\* str.lower() on one character (the letters the model's texts use).
LowerChar(c) ==
    CASE c = "A" -> "a" [] c = "B" -> "b" [] c = "C" -> "c" [] c = "D" -> "d"
      [] c = "E" -> "e" [] c = "F" -> "f" [] c = "G" -> "g" [] c = "H" -> "h"
      [] c = "I" -> "i" [] c = "J" -> "j" [] c = "K" -> "k" [] c = "L" -> "l"
      [] c = "M" -> "m" [] c = "N" -> "n" [] c = "O" -> "o" [] c = "P" -> "p"
      [] c = "Q" -> "q" [] c = "R" -> "r" [] c = "S" -> "s" [] c = "T" -> "t"
      [] c = "U" -> "u" [] c = "V" -> "v" [] c = "W" -> "w" [] c = "X" -> "x"
      [] c = "Y" -> "y" [] c = "Z" -> "z" [] OTHER -> c

\* str.lower()
Lower(s) == [i \in 1..Len(s) |-> LowerChar(s[i])]

\* `kw in s` for strings: kw occurs in s as a contiguous substring.
Contains(s, kw) ==
    \E i \in 1..(Len(s) - Len(kw) + 1) : SubSeq(s, i, i + Len(kw) - 1) = kw

\* sep.join(parts)
RECURSIVE Join(_, _)
Join(parts, sep) ==
    IF parts = <<>> THEN <<>>
    ELSE IF Len(parts) = 1 THEN parts[1]
    ELSE parts[1] \o sep \o Join(Tail(parts), sep)

IsSpace(c) == c \in {" ", "\n", "\t"}

\* str.strip(): leading and trailing whitespace removed.
RECURSIVE LStrip(_)
LStrip(s) == IF s # <<>> /\ IsSpace(s[1]) THEN LStrip(Tail(s)) ELSE s
RECURSIVE RStrip(_)
RStrip(s) ==
    IF s # <<>> /\ IsSpace(s[Len(s)]) THEN RStrip(SubSeq(s, 1, Len(s) - 1)) ELSE s
Strip(s) == RStrip(LStrip(s))

Range(seq) == {seq[i] : i \in 1..Len(seq)}

\* every sequence over S of length at most n
SeqsUpTo(S, n) == UNION {[1..k -> S] : k \in 0..n}

-----------------------------------------------------------------------------
(* DesignIntelligence.analyze_content_type (ai_analyzer.py).               *)

ProcessWords    == << <<"s","t","e","p">>, <<"p","r","o","c","e","s","s">>,
                      <<"p","h","a","s","e">>, <<"s","t","a","g","e">> >>
ComparisonWords == << <<"c","o","m","p","a","r","e">>, <<"v","e","r","s","u","s">>,
                      <<"v","s">>, <<"d","i","f","f","e","r","e","n","c","e">> >>
TimelineWords   == << <<"t","i","m","e","l","i","n","e">>,
                      <<"h","i","s","t","o","r","y">>, <<"r","o","a","d","m","a","p">> >>
QaWords         == << <<"q","u","e","s","t","i","o","n">>, <<"?">>, <<"f","a","q">> >>
ClosingWords    == << <<"t","h","a","n","k">>, <<"c","o","n","t","a","c","t">>,
                      <<"q","u","e","s","t","i","o","n","s","?">> >>

\* any(word in all_text for word in words)
AnyWordIn(text, words) == \E i \in 1..Len(words) : Contains(text, words[i])

\* [t.get("text", "") for t in text_content]
TextsOf(text_content) == [i \in 1..Len(text_content) |-> text_content[i].text]
\* [t.get("type", "") for t in text_content]
TypesOf(text_content) == {text_content[i].type : i \in 1..Len(text_content)}

\* " ".join([...]).lower()
AllText(text_content) == Lower(Join(TextsOf(text_content), <<" ">>))

IsBodyItem(t) == t.type = "body"

BulletLimit == 4
TitleItemLimit == 2

analyze_content_type_bodyfirst(slide_data) ==
    LET tc == slide_data.text_content
        all_text == AllText(tc)
    IN  IF tc = <<>>
        THEN (IF slide_data.images # <<>> THEN "image_focused" ELSE "empty")
        ELSE IF Len(tc) <= TitleItemLimit /\ ({"ctrTitle", "subTitle"} \cap TypesOf(tc)) # {}
        THEN "title_slide"
        ELSE IF slide_data.has_chart \/ slide_data.has_table
        THEN "data_presentation"
        ELSE IF Len(SelectSeq(tc, IsBodyItem)) > BulletLimit THEN "detailed_content"
        ELSE IF AnyWordIn(all_text, ProcessWords) THEN "process"
        ELSE IF AnyWordIn(all_text, ComparisonWords) THEN "comparison"
        ELSE IF AnyWordIn(all_text, TimelineWords) THEN "timeline"
        ELSE IF AnyWordIn(all_text, QaWords) THEN "qa"
        ELSE IF AnyWordIn(all_text, ClosingWords) THEN "closing"
        ELSE "standard_content"

analyze_content_type_lexfirst(slide_data) ==
    LET tc == slide_data.text_content
        all_text == AllText(tc)
    IN  IF tc = <<>>
        THEN (IF slide_data.images # <<>> THEN "image_focused" ELSE "empty")
        ELSE IF Len(tc) <= TitleItemLimit /\ ({"ctrTitle", "subTitle"} \cap TypesOf(tc)) # {}
        THEN "title_slide"
        ELSE IF AnyWordIn(all_text, ProcessWords) THEN "process"
        ELSE IF AnyWordIn(all_text, ComparisonWords) THEN "comparison"
        ELSE IF AnyWordIn(all_text, TimelineWords) THEN "timeline"
        ELSE IF AnyWordIn(all_text, QaWords) THEN "qa"
        ELSE IF AnyWordIn(all_text, ClosingWords) THEN "closing"
        ELSE IF slide_data.has_chart \/ slide_data.has_table
        THEN "data_presentation"
        ELSE IF Len(SelectSeq(tc, IsBodyItem)) > BulletLimit THEN "detailed_content"
        ELSE "standard_content"

analyze_content_type(slide_data) ==
    LET tc == slide_data.text_content
        all_text == AllText(tc)
    IN  IF tc = <<>>
        THEN (IF slide_data.images # <<>> THEN "image_focused" ELSE "empty")
        ELSE IF Len(tc) <= TitleItemLimit /\ ({"ctrTitle", "subTitle"} \cap TypesOf(tc)) # {}
        THEN "title_slide"
        ELSE IF slide_data.has_chart \/ slide_data.has_table
        THEN "data_presentation"
        ELSE IF AnyWordIn(all_text, ProcessWords) THEN "process"
        ELSE IF AnyWordIn(all_text, ComparisonWords) THEN "comparison"
        ELSE IF AnyWordIn(all_text, TimelineWords) THEN "timeline"
        ELSE IF AnyWordIn(all_text, QaWords) THEN "qa"
        ELSE IF AnyWordIn(all_text, ClosingWords) THEN "closing"
        ELSE IF Len(SelectSeq(tc, IsBodyItem)) > BulletLimit THEN "detailed_content"
        ELSE "standard_content"

-----------------------------------------------------------------------------
(* Values shared by the specifications.                                    *)

\* Python None
None == [none |-> TRUE]

\* A TextItem as _parse_single_slide builds it (formatting is not read by any
\* decision and is left out).
TextItem(type, text) == [type |-> type, text |-> text]

\* An ImageRef as _parse_image returns it.
ImageRef == [type |-> "image", rel_id |-> "rId2"]

Txt_Welcome   == <<"W","e","l","c","o","m","e">>
Txt_ThankYou  == <<"T","h","a","n","k"," ","y","o","u">>
Txt_Process   == <<"O","u","r"," ","P","r","o","c","e","s","s">>
Txt_AvsB      == <<"A"," ","v","s"," ","B">>
Txt_Roadmap   == <<"R","o","a","d","m","a","p">>
Txt_FAQ       == <<"F","A","Q">>
Txt_Contact   == <<"C","o","n","t","a","c","t"," ","u","s">>
Txt_Hello     == <<"H","e","l","l","o">>
Txt_Questions == <<"Q","u","e","s","t","i","o","n","s","?">>

\* The TextItems the classifier is exercised on.
ItemPool ==
    { TextItem("ctrTitle", Txt_Welcome), TextItem("subTitle", Txt_ThankYou),
      TextItem("title", Txt_Process),    TextItem("body", Txt_AvsB),
      TextItem("body", Txt_Roadmap),     TextItem("body", Txt_FAQ),
      TextItem("body", Txt_Contact),     TextItem("body", Txt_Hello),
      TextItem("body", Txt_Questions) }

MaxItems == 5

\* Slide inputs: every list of at most MaxItems TextItems built from any two
\* items of the pool, with and without images, chart and table.
SlideInputs ==
    { [text_content |-> tc, images |-> im, has_chart |-> hc, has_table |-> ht] :
        tc \in UNION { SeqsUpTo({a, b}, MaxItems) : a \in ItemPool, b \in ItemPool },
        im \in {<<>>, <<ImageRef>>}, hc \in BOOLEAN, ht \in BOOLEAN }

IdleClassify == slide = None /\ label = "unclassified" /\ calls = 0
IdleParse    == archive = None /\ parsed = None
IdleFunction == given = None /\ returned = None
IdleSessions ==
    /\ sessions = None /\ issued = {} /\ disk = None
    /\ inflight = None /\ last = None

-----------------------------------------------------------------------------
(* PPTXParser (pptx_parser.py).                                            *)

IsDigit(c) == c \in {"0", "1", "2", "3", "4", "5", "6", "7", "8", "9"}
DigitVal(c) ==
    CASE c = "0" -> 0 [] c = "1" -> 1 [] c = "2" -> 2 [] c = "3" -> 3 [] c = "4" -> 4
      [] c = "5" -> 5 [] c = "6" -> 6 [] c = "7" -> 7 [] c = "8" -> 8 [] c = "9" -> 9

\* int(digits)
RECURSIVE ParseInt(_)
ParseInt(ds) ==
    IF ds = <<>> THEN 0
    ELSE 10 * ParseInt(SubSeq(ds, 1, Len(ds) - 1)) + DigitVal(ds[Len(ds)])

StartsWith(s, pre) == Len(s) >= Len(pre) /\ SubSeq(s, 1, Len(pre)) = pre
EndsWith(s, suf) == Len(s) >= Len(suf) /\ SubSeq(s, Len(s) - Len(suf) + 1, Len(s)) = suf

Str_slide == <<"s","l","i","d","e">>
Str_xml   == <<".","x","m","l">>

\* s[i-1:j] : the characters at positions i..j that exist
Slice(s, i, j) == [k \in 1..((IF j > Len(s) THEN Len(s) ELSE j) - i + 1) |-> s[i + k - 1]]

\* the length of the run of digits of s that starts at position i
RECURSIVE DigitRun(_, _)
DigitRun(s, i) == IF i <= Len(s) /\ IsDigit(s[i]) THEN 1 + DigitRun(s, i + 1) ELSE 0

\* the positions where slide(\d+)\.xml matches in f
SlideMatches(f) ==
    { i \in 1..Len(f) :
        /\ Slice(f, i, i + Len(Str_slide) - 1) = Str_slide
        /\ LET n == DigitRun(f, i + Len(Str_slide))
           IN  /\ n >= 1
               /\ Slice(f, i + Len(Str_slide) + n, i + Len(Str_slide) + n + Len(Str_xml) - 1) = Str_xml }

\* re.search(r'slide(\d+)\.xml', f).group(1) of the leftmost match
SlideDigits(f) ==
    LET i == CHOOSE k \in SlideMatches(f) : \A j \in SlideMatches(f) : k <= j
    IN  Slice(f, i + Len(Str_slide), i + Len(Str_slide) + DigitRun(f, i + Len(Str_slide)) - 1)

\* lines 140-144: the (number, filename, part) triples of the slide files
IsSlideFile(f) == StartsWith(f, Str_slide) /\ EndsWith(f, Str_xml) /\ SlideMatches(f) # {}

RECURSIVE slide_files(_)
slide_files(listing) ==
    IF listing = <<>> THEN <<>>
    ELSE (IF IsSlideFile(listing[1].name)
          THEN << [num |-> ParseInt(SlideDigits(listing[1].name)),
                   filename |-> listing[1].name, part |-> listing[1].part] >>
          ELSE <<>>) \o slide_files(Tail(listing))

\* str < str : lexicographic order on characters (by code point; the
\* characters of the file names are digits, '.', '_' and lower-case letters)
CharRank(c) ==
    IF c = "." THEN 0 ELSE IF IsDigit(c) THEN 1 + DigitVal(c) ELSE IF c = "_" THEN 11 ELSE 12
RECURSIVE StrLess(_, _)
StrLess(a, b) ==
    IF b = <<>> THEN FALSE
    ELSE IF a = <<>> THEN TRUE
    ELSE IF a[1] = b[1] THEN StrLess(Tail(a), Tail(b))
    ELSE CharRank(a[1]) < CharRank(b[1])

\* list.sort(key=...) is stable: an element goes after every element that
\* is smaller and after the equal ones listed before it.
\* keys[i] is the integer key of seq[i].
StableSort(seq, keys) ==
    LET n == Len(seq)
        rank(i) == 1 + Cardinality({ j \in 1..n :
                        \/ keys[j] < keys[i]
                        \/ (keys[j] = keys[i] /\ j < i) })
    IN  [k \in 1..n |-> seq[CHOOSE i \in 1..n : rank(i) = k]]

\* the position of each file name in the order of the names
NameKeys(files) ==
    [i \in 1..Len(files) |->
        Cardinality({ j \in 1..Len(files) : StrLess(files[j].filename, files[i].filename) })]

sort_slide_files_by_name(files) == StableSort(files, NameKeys(files))

\* slide_files.sort(key=lambda x: x[0])
sort_slide_files(files) == StableSort(files, [i \in 1..Len(files) |-> files[i].num])

\* _extract_paragraph_text: the non-empty run texts (runs, then fields)
\* joined by a blank.
NonEmpty(t) == t # <<>>
extract_paragraph_text(paragraph) == Join(SelectSeq(paragraph, NonEmpty), <<" ">>)

\* _parse_shape: None, or the shape_data record.
parse_shape(shape) ==
    LET placeholder_type ==
            IF shape.ph = "absent" THEN None
            ELSE IF shape.ph = "untyped" THEN [none |-> FALSE, val |-> "body"]
            ELSE [none |-> FALSE, val |-> shape.ph]
        texts == [i \in 1..Len(shape.txBody) |-> extract_paragraph_text(shape.txBody[i])]
        paragraphs == SelectSeq(texts, NonEmpty)
        text == Join(paragraphs, <<"\n">>)
    IN  IF text # <<>> \/ placeholder_type # None
        THEN [none |-> FALSE, text |-> text, text_paragraphs |-> paragraphs,
              placeholder_type |-> placeholder_type]
        ELSE None

\* a parser that emits the whole text of every shape as one TextItem
shape_text_items_merged(shape_data) ==
    IF shape_data.text = <<>> THEN <<>>
    ELSE << TextItem(IF shape_data.placeholder_type = None THEN "body"
                     ELSE shape_data.placeholder_type.val,
                     shape_data.text) >>

\* lines 179-204: the TextItems one shape contributes
shape_text_items(shape_data) ==
    IF shape_data.text = <<>> THEN <<>>
    ELSE LET placeholder_type ==
                 IF shape_data.placeholder_type = None THEN "body"
                 ELSE shape_data.placeholder_type.val
             stripped == [i \in 1..Len(shape_data.text_paragraphs) |->
                             Strip(shape_data.text_paragraphs[i])]
             kept == SelectSeq(stripped, NonEmpty)
         IN  IF placeholder_type \in {"title", "ctrTitle", "subTitle"}
             THEN << TextItem(placeholder_type, shape_data.text) >>
             ELSE [i \in 1..Len(kept) |-> TextItem(placeholder_type, kept[i])]

RECURSIVE Flatten(_)
Flatten(seqs) == IF seqs = <<>> THEN <<>> ELSE seqs[1] \o Flatten(Tail(seqs))

NotNone(x) == x # None

\* _determine_layout_type
determine_layout_type(slide_data) ==
    LET placeholders == { IF slide_data.shapes[i].placeholder_type = None THEN "None"
                          ELSE slide_data.shapes[i].placeholder_type.val :
                          i \in 1..Len(slide_data.shapes) }
    IN  IF "ctrTitle" \in placeholders \/ "subTitle" \in placeholders THEN "title"
        ELSE IF slide_data.has_chart THEN "chart"
        ELSE IF slide_data.has_table THEN "table"
        ELSE IF Len(slide_data.images) > 0 THEN "image"
        ELSE IF "title" \in placeholders /\ "body" \in placeholders THEN "title_content"
        ELSE IF Len(slide_data.text_content) = 1 THEN "single_content"
        ELSE "content"

\* _parse_single_slide on a well-formed slide part
parse_single_slide(part) ==
    LET shapes == SelectSeq([i \in 1..Len(part.sp) |-> parse_shape(part.sp[i])], NotNone)
        text_content == Flatten([i \in 1..Len(shapes) |-> shape_text_items(shapes[i])])
        slide_data == [shapes |-> shapes, text_content |-> text_content,
                       images |-> part.pics,
                       has_chart |-> part.graphicFrame,
                       has_table |-> part.tbl]
    IN  [shapes |-> shapes, text_content |-> text_content, images |-> part.pics,
         has_chart |-> part.graphicFrame, has_table |-> part.tbl,
         layout_type |-> determine_layout_type(slide_data)]

\* ET.parse(slide_path) raises on a part that is not well-formed XML.
PartRaises(part) == ~part.wellformed

\* lines 148-153: the loop of _parse_slides over the sorted files; the outcome
\* is the list of slides, or the exception the first failing part raises.
RECURSIVE parse_slide_loop(_, _)
parse_slide_loop(files, idx) ==
    IF files = <<>> THEN [raised |-> FALSE, slides |-> <<>>]
    ELSE IF PartRaises(files[1].part) THEN [raised |-> TRUE, slides |-> <<>>]
    ELSE LET rest == parse_slide_loop(Tail(files), idx + 1)
             s == parse_single_slide(files[1].part)
             slide_data == [shapes |-> s.shapes, text_content |-> s.text_content,
                            images |-> s.images, has_chart |-> s.has_chart,
                            has_table |-> s.has_table, layout_type |-> s.layout_type,
                            slide_number |-> idx + 1, filename |-> files[1].filename]
         IN  IF rest.raised THEN rest
             ELSE [raised |-> FALSE, slides |-> <<slide_data>> \o rest.slides]

\* _parse_slides
parse_slides(listing) == parse_slide_loop(sort_slide_files(slide_files(listing)), 0)

\* _parse_presentation_metadata: returns without metadata when
\* ppt/presentation.xml is absent, raises when it is not well-formed.
parse_presentation_metadata(manifest) ==
    IF manifest = "absent" THEN [raised |-> FALSE, metadata |-> [slide_count |-> -1]]
    ELSE IF manifest = "malformed" THEN [raised |-> TRUE, metadata |-> [slide_count |-> -1]]
    ELSE [raised |-> FALSE, metadata |-> [slide_count |-> 0, aspect_ratio |-> "16:9"]]

\* PPTXParser.parse / parse_pptx: the Deck, or the exception raised.
parse(file) ==
    IF ~file.is_zip THEN [ok |-> FALSE, error |-> "BadZipFile"]
    ELSE LET meta == parse_presentation_metadata(file.manifest)
             sl == parse_slides(file.listing)
         IN  IF meta.raised \/ sl.raised THEN [ok |-> FALSE, error |-> "ParseError"]
             ELSE [ok |-> TRUE,
                   deck |-> [metadata |-> meta.metadata, slides |-> sl.slides,
                             slide_count |-> Len(sl.slides)]]

-----------------------------------------------------------------------------
(* AIDesignDirector (ai_design_director.py).                               *)
(*                                                                         *)
(* A JSON object is a record; any other JSON value (a list, a string, a    *)
(* number) is NonDict.  json.dumps of an object contains each of its key   *)
(* names, which is what the fallback's `"..." in prompt` tests look at.    *)

Some(x) == [none |-> FALSE, val |-> x]

NonDict == [json_nondict |-> TRUE]
IsDict(v) == "json_nondict" \notin DOMAIN v
EmptyDict == [k \in {} |-> NonDict]

\* dict.get(k, default)
Get(v, k, default) == IF k \in DOMAIN v THEN v[k] ELSE default

\* the key names that occur in json.dumps(v)
KeysIn(v) == IF IsDict(v) THEN DOMAIN v ELSE {}

\* dict[k] = x
SetKey(v, k, x) == [f \in (DOMAIN v) \cup {k} |-> IF f = k THEN x ELSE v[f]]

\* the records _get_intelligent_fallback returns (the keys that are read)
FallbackAnalysis ==
    [presentation_type |-> "professional",
     primary_purpose |-> "Communicate key information effectively",
     visual_mood |-> "modern professional"]
FallbackConcept ==
    [concept_name |-> "Modern Professional",
     concept_description |-> "A sophisticated, clean design approach"]
FallbackSlide ==
    [slide_number |-> 1, slide_role |-> "Content delivery",
     purpose |-> "Communicate information clearly",
     layout |-> [type |-> "content", content_alignment |-> "left"],
     typography |-> [title_size |-> "medium"]]
FallbackDefault == [error |-> "Fallback response", status |-> "using defaults"]

\* _get_intelligent_fallback: `"..." in prompt` looks at the whole prompt,
\* the template and the JSON embedded in it.
get_intelligent_fallback(prompt) ==
    LET text == prompt.template \cup prompt.embedded
    IN  IF "presentation_type" \in text THEN FallbackAnalysis
        ELSE IF "concept_name" \in text THEN FallbackConcept
        ELSE IF "slide_role" \in text THEN FallbackSlide
        ELSE FallbackDefault

\* _call_ai: the fallback without an API key and when the call times out,
\* fails or returns text that is not JSON; else the JSON the model returned.
call_ai(prompt, api_key, outcome) ==
    IF api_key = "None" THEN get_intelligent_fallback(prompt)
    ELSE IF outcome.kind = "fail" THEN get_intelligent_fallback(prompt)
    ELSE outcome.json

\* the prompts of the three kinds of call
HolisticPrompt == [template |-> {"presentation_type"}, embedded |-> {}]
ConceptPrompt(analysis) == [template |-> {"concept_name"}, embedded |-> KeysIn(analysis)]
SlidePrompt(visual_concept) == [template |-> {"slide_role"}, embedded |-> KeysIn(visual_concept)]

\* _design_single_slide: raises when presentation_context is no dict
\* (.get) or when the result is no dict (result["slide_number"] = ...).
design_single_slide(slide_index, presentation_context, visual_concept, api_key, outcome) ==
    LET result == call_ai(SlidePrompt(visual_concept), api_key, outcome)
    IN  IF ~IsDict(presentation_context) \/ ~IsDict(result) THEN [raised |-> TRUE]
        ELSE [raised |-> FALSE, val |-> SetKey(result, "slide_number", slide_index + 1)]

\* analyze_and_design / get_ai_design_instructions (generate_images False):
\* outcomes[1] is the outcome of the holistic call, outcomes[2] of the
\* visual-concept call, outcomes[2+i] of the call for slide i.
analyze_and_design(slides_data, api_key, outcomes) ==
    LET presentation_analysis == call_ai(HolisticPrompt, api_key, outcomes[1])
        visual_concept == call_ai(ConceptPrompt(presentation_analysis), api_key, outcomes[2])
        per_slide == [i \in 1..Len(slides_data) |->
                        design_single_slide(i - 1, presentation_analysis, visual_concept,
                                            api_key, outcomes[2 + i])]
    IN  IF \E i \in 1..Len(slides_data) : per_slide[i].raised THEN [raised |-> TRUE]
        ELSE [raised |-> FALSE,
              val |-> [presentation_analysis |-> presentation_analysis,
                       visual_concept |-> visual_concept,
                       slide_instructions |-> [i \in 1..Len(slides_data) |-> per_slide[i].val]]]

\* the calls of analyze_and_design that post to the model over the network,
\* by their position in outcomes: none without an API key; else the
\* holistic call, the visual-concept call, and the call for slide i unless
\* _design_single_slide raised before (building the prompt for a context
\* that is no dict, or setting slide_number on an earlier result that is
\* no dict).  _call_ai catches a failure and returns, so the next call
\* is made all the same.
advisor_posts(slides_data, api_key, outcomes) ==
    IF api_key = "None" THEN {}
    ELSE LET presentation_analysis == call_ai(HolisticPrompt, api_key, outcomes[1])
             visual_concept ==
                 call_ai(ConceptPrompt(presentation_analysis), api_key, outcomes[2])
             result(j) == call_ai(SlidePrompt(visual_concept), api_key, outcomes[2 + j])
         IN  {1, 2} \cup
             { 2 + i : i \in { k \in 1..Len(slides_data) :
                                 /\ IsDict(presentation_analysis)
                                 /\ \A j \in 1..(k - 1) : IsDict(result(j)) } }

-----------------------------------------------------------------------------
(* RedesignEngine and SlideDesigner (redesign_engine.py).                  *)

LayoutClosingWords == << <<"t","h","a","n","k">>, <<"q","u","e","s","t","i","o","n","s">>,
                         <<"c","o","n","t","a","c","t">> >>
TwoColumnLimit == 5
LayoutTitleLimit == 2

NotTitleItem(t) == t.type \notin {"title", "ctrTitle"}

\* _determine_layout, lines 770-795: the rule-based decision
rule_based_layout(slide_data) ==
    LET text_content == slide_data.text_content
        all_text == AllText(text_content)
    IN  IF ({"ctrTitle", "subTitle"} \cap TypesOf(text_content)) # {}
           /\ Len(text_content) <= LayoutTitleLimit
        THEN "title"
        ELSE IF AnyWordIn(all_text, LayoutClosingWords) THEN "closing"
        ELSE IF slide_data.has_chart THEN "chart"
        ELSE IF slide_data.images # <<>> THEN "image_content"
        ELSE IF Len(SelectSeq(text_content, NotTitleItem)) > TwoColumnLimit THEN "two_column"
        ELSE "content"

\* ai_instructions.get('layout', {}).get('type', 'content'): raises when
\* layout is no dict.
ai_layout_type(ai_instructions) ==
    LET layout == Get(ai_instructions, "layout", EmptyDict)
    IN  IF ~IsDict(layout) THEN [raised |-> TRUE]
        ELSE [raised |-> FALSE, val |-> Get(layout, "type", "content")]

\* _determine_layout: the advisor's record, when there is one, decides.
determine_layout(slide_data, ai_instructions) ==
    IF ai_instructions # None THEN ai_layout_type(ai_instructions.val)
    ELSE [raised |-> FALSE, val |-> rule_based_layout(slide_data)]

Generators == {"title", "content", "two_column", "stats", "image_content", "chart",
               "closing", "section_break"}

\* the instruction fields a generator reads with .get(...).get(...): each
\* must be a dict when present
GeneratorReads(generator) ==
    IF generator = "closing" THEN {}
    ELSE IF generator = "section_break" THEN {"color_application"}
    ELSE {"color_application", "visual_elements", "typography"}

\* generate_slide_html: the generator that produced the html, or raised.
generate_slide_html(slide_data, ai_instructions) ==
    LET layout_type ==
            IF ai_instructions # None THEN ai_layout_type(ai_instructions.val)
            ELSE [raised |-> FALSE, val |-> slide_data.layout_type]
    IN  IF layout_type.raised THEN [raised |-> TRUE]
        ELSE LET generator == IF layout_type.val \in Generators THEN layout_type.val
                              ELSE "content"
             IN  IF /\ ai_instructions # None
                    /\ \E k \in GeneratorReads(generator) :
                          ~IsDict(Get(ai_instructions.val, k, EmptyDict))
                 THEN [raised |-> TRUE]
                 ELSE [raised |-> FALSE, val |-> generator]

\* RedesignEngine.redesign: slide_instructions is the advisor's list
\* (empty without an advisor result).
redesign_slide(slide_data, i, slide_instructions) ==
    LET ai_slide_inst == IF i <= Len(slide_instructions) THEN Some(slide_instructions[i])
                         ELSE None
        layout_type == determine_layout(slide_data, ai_slide_inst)
        html == generate_slide_html(slide_data, ai_slide_inst)
    IN  IF layout_type.raised \/ html.raised THEN [raised |-> TRUE]
        ELSE [raised |-> FALSE,
              val |-> [slide_number |-> i, layout_type |-> layout_type.val,
                       html |-> html.val,
                       original_content |-> slide_data.text_content,
                       ai_instructions |-> ai_slide_inst,
                       has_chart |-> slide_data.has_chart,
                       has_table |-> slide_data.has_table,
                       has_images |-> Len(slide_data.images) > 0]]

redesign(slides, ai_design_result) ==
    LET slide_instructions ==
            IF ai_design_result = None THEN <<>>
            ELSE ai_design_result.val.slide_instructions
        per_slide == [i \in 1..Len(slides) |-> redesign_slide(slides[i], i, slide_instructions)]
    IN  IF \E i \in 1..Len(slides) : per_slide[i].raised THEN [raised |-> TRUE]
        ELSE [raised |-> FALSE, val |-> [i \in 1..Len(slides) |-> per_slide[i].val]]

-----------------------------------------------------------------------------
(* The uploaded files the parser is exercised on.                          *)

\* A p:sp element: its placeholder ("absent": no p:ph, "untyped": p:ph
\* without a type attribute) and the paragraphs of its p:txBody, each the
\* list of its run texts.
Sp(ph, txBody) == [ph |-> ph, txBody |-> txBody]

Txt_3     == <<"3">>

\* slide parts: a title slide, a title-and-bullets slide whose body holds an
\* empty paragraph, and a part that is not well-formed XML
Part_Title ==
    [wellformed |-> TRUE,
     sp |-> << Sp("ctrTitle", << <<Txt_Welcome>> >>), Sp("subTitle", << <<Txt_Hello>> >>) >>,
     graphicFrame |-> FALSE, tbl |-> FALSE, pics |-> <<>>]
Part_Body ==
    [wellformed |-> TRUE,
     sp |-> << Sp("title", << <<Txt_Process>> >>),
               Sp("untyped", << <<Txt_Hello>>, <<>>, <<Txt_Contact>> >>),
               Sp("sldNum", << <<Txt_3>> >>) >>,
     graphicFrame |-> FALSE, tbl |-> FALSE, pics |-> <<>>]
Part_Corrupt ==
    [wellformed |-> FALSE, sp |-> <<>>, graphicFrame |-> FALSE, tbl |-> FALSE, pics |-> <<>>]

PartPool == {Part_Title, Part_Body, Part_Corrupt}

Name_slide1  == <<"s","l","i","d","e","1",".","x","m","l">>
Name_slide2  == <<"s","l","i","d","e","2",".","x","m","l">>
Name_slide02 == <<"s","l","i","d","e","0","2",".","x","m","l">>
Name_slide10 == <<"s","l","i","d","e","1","0",".","x","m","l">>
Name_rels    == <<"_","r","e","l","s">>

\* the entries os.listdir(ppt/slides) may return
NamePool == {Name_slide1, Name_slide2, Name_slide02, Name_slide10, Name_rels}

MaxParts == 3

\* every listing of at most MaxParts distinct names, in every order, each
\* slide file with any part of the pool
Listings ==
    { l \in SeqsUpTo([name : NamePool, part : PartPool], MaxParts) :
        /\ \A i, j \in 1..Len(l) : i # j => l[i].name # l[j].name
        /\ \A i \in 1..Len(l) : l[i].name = Name_rels => l[i].part = Part_Corrupt }

NotAZip == [is_zip |-> FALSE, manifest |-> "absent", listing |-> <<>>]

ArchiveInputs ==
    {NotAZip} \cup
    { [is_zip |-> TRUE, manifest |-> m, listing |-> l] :
        m \in {"ok", "absent", "malformed"}, l \in Listings }

-----------------------------------------------------------------------------
(* SpecParse: PPTXParser.parse applied to every archive input.             *)

InitParse ==
    /\ archive \in ArchiveInputs
    /\ parsed = None
    /\ IdleClassify /\ IdleFunction /\ IdleSessions

\* parsed = parse_pptx(file_path)
ParseArchive ==
    /\ parsed = None
    /\ parsed' = parse(archive)
    /\ UNCHANGED <<slide, label, calls, given, returned, archive, sessions, issued, disk,
                   inflight, last>>

NextParse == ParseArchive

SpecParse == InitParse /\ [][NextParse]_vars

-----------------------------------------------------------------------------
(* SpecTemp: PPTXParser.parse step by step, with the temporary directory   *)
(* it extracts the archive into.  `parsed` holds the position in parse,    *)
(* whether the directory exists, and where an exception was raised.        *)

\* the position before self.temp_dir = tempfile.mkdtemp()
ParseEntered == [pc |-> "mkdtemp", temp_dir |-> FALSE, raised_in |-> "nowhere"]

\* a statement of the try block: on an exception control goes to the
\* finally clause, else to the statement that follows
try_step(st, stage, raises, following) ==
    IF raises THEN [st EXCEPT !.pc = "finally", !.raised_in = stage]
    ELSE [st EXCEPT !.pc = following]

\* a parse that removes the directory at the end of the try block only
parse_finally_onreturn(st) ==
    [st EXCEPT !.pc = "returned",
               !.temp_dir = IF st.raised_in = "nowhere" THEN FALSE ELSE @]

\* lines 59-62: finally: if self.temp_dir and os.path.exists(self.temp_dir):
\* shutil.rmtree(self.temp_dir)
parse_finally(st) == [st EXCEPT !.pc = "returned", !.temp_dir = FALSE]

InitTemp ==
    /\ archive \in ArchiveInputs
    /\ parsed = ParseEntered
    /\ IdleClassify /\ IdleFunction /\ IdleSessions

unchanged_temp ==
    UNCHANGED <<slide, label, calls, given, returned, archive, sessions, issued, disk,
                inflight, last>>

\* line 36
Mkdtemp ==
    /\ parsed.pc = "mkdtemp"
    /\ parsed' = [parsed EXCEPT !.pc = "extractall", !.temp_dir = TRUE]
    /\ unchanged_temp

\* lines 39-40: zipfile.ZipFile raises on a file that is no archive
Extractall ==
    /\ parsed.pc = "extractall"
    /\ parsed' = try_step(parsed, "extractall", ~archive.is_zip, "metadata")
    /\ unchanged_temp

\* line 43
ParseMetadata ==
    /\ parsed.pc = "metadata"
    /\ parsed' = try_step(parsed, "metadata",
                          parse_presentation_metadata(archive.manifest).raised, "theme")
    /\ unchanged_temp

\* line 44: ET.parse raises on a theme1.xml that is not well-formed
ParseTheme ==
    /\ parsed.pc = "theme"
    /\ \E raises \in BOOLEAN : parsed' = try_step(parsed, "theme", raises, "slides")
    /\ unchanged_temp

\* line 45
ParseSlides ==
    /\ parsed.pc = "slides"
    /\ parsed' = try_step(parsed, "slides", parse_slides(archive.listing).raised, "media")
    /\ unchanged_temp

\* line 46: reading a media file may raise; after it the try block returns
ExtractMedia ==
    /\ parsed.pc = "media"
    /\ \E raises \in BOOLEAN : parsed' = try_step(parsed, "media", raises, "finally")
    /\ unchanged_temp

\* lines 59-62
ParseFinally ==
    /\ parsed.pc = "finally"
    /\ parsed' = parse_finally(parsed)
    /\ unchanged_temp

NextTemp ==
    \/ Mkdtemp \/ Extractall \/ ParseMetadata \/ ParseTheme \/ ParseSlides
    \/ ExtractMedia \/ ParseFinally

SpecTemp == InitTemp /\ [][NextTemp]_vars

\* C24: when parse has returned, normally or with an exception raised
\* while extracting or while parsing metadata, theme, slides or media, the
\* temporary directory does not exist.
C24_TempDirReleased ==
    parsed.pc = "returned" => ~parsed.temp_dir

\* parse has left with the exception a media file raised
C24_Witness ==
    /\ parsed.pc = "returned"
    /\ parsed.raised_in = "media"
    /\ archive.is_zip /\ archive.listing # <<>>
    /\ ~parsed.temp_dir

-----------------------------------------------------------------------------
(* SpecSlide: _parse_single_slide applied to slide parts whose last shape  *)
(* ranges over every placeholder and every short list of paragraphs.       *)

Txt_Blank == <<" ">>

\* the a:p elements: without text, with a blank run, with one run, with
\* a slide-number field, with two runs
ParagraphPool ==
    { <<>>, <<Txt_Blank>>, <<Txt_Hello>>, <<Txt_3>>, <<Txt_Hello, Txt_Contact>> }

\* the p:ph of a shape
PlaceholderPool == {"absent", "untyped", "title", "ctrTitle", "subTitle", "sldNum"}

MaxParagraphs == 3

ShapeInputs ==
    { Sp(ph, txBody) : ph \in PlaceholderPool,
                       txBody \in SeqsUpTo(ParagraphPool, MaxParagraphs) }

\* the shapes that precede the last one: none, or a centred title and a
\* subtitle
ShapePrefixes ==
    { <<>>,
      << Sp("ctrTitle", << <<Txt_Welcome>> >>), Sp("subTitle", << <<Txt_Hello>> >>) >> }

SlidePartInputs ==
    { [wellformed |-> TRUE, sp |-> prefix \o <<shape>>,
       graphicFrame |-> FALSE, tbl |-> FALSE, pics |-> <<>>] :
        prefix \in ShapePrefixes, shape \in ShapeInputs }

InitSlide ==
    /\ given \in SlidePartInputs
    /\ returned = None
    /\ IdleClassify /\ IdleParse /\ IdleSessions

\* slide_data = self._parse_single_slide(slide_path, idx)
ParseSlide ==
    /\ returned = None
    /\ returned' = parse_single_slide(given)
    /\ UNCHANGED <<slide, label, calls, given, archive, parsed, sessions, issued, disk,
                   inflight, last>>

NextSlide == ParseSlide

SpecSlide == InitSlide /\ [][NextSlide]_vars

\* the role _parse_single_slide gives the TextItems of a shape
RoleOf(shape) == IF shape.ph \in {"absent", "untyped"} THEN "body" ELSE shape.ph

TitleRoles == {"title", "ctrTitle", "subTitle"}

\* one TextItem per paragraph of the shape that is non-empty after
\* trimming, in the order of the paragraphs
C12_Trimmed(shape) ==
    [i \in 1..Len(shape.txBody) |-> Strip(extract_paragraph_text(shape.txBody[i]))]
C12_Expected(shape) ==
    LET kept == SelectSeq(C12_Trimmed(shape), NonEmpty)
    IN  [i \in 1..Len(kept) |-> TextItem(RoleOf(shape), kept[i])]

\* C12: a slide part whose only shape has no title role yields exactly one
\* TextItem per paragraph that is non-empty after trimming, in order; and
\* no TextItem of any slide part has an empty text.
C12_ParagraphSplit ==
    returned # None =>
        /\ ( Len(given.sp) = 1 /\ RoleOf(given.sp[1]) \notin TitleRoles )
           => returned.text_content = C12_Expected(given.sp[1])
        /\ \A i \in 1..Len(returned.text_content) :
              returned.text_content[i].text # <<>>

\* two non-empty paragraphs around an empty one and a blank one
C12_Witness ==
    /\ returned # None
    /\ given.sp = << Sp("untyped", << <<Txt_Hello>>, <<>>, <<Txt_Hello, Txt_Contact>> >>) >>
    /\ Len(returned.text_content) = 2

\* `text.isdigit() and len(text) <= 3`: the test of the exporters
\* (_extract_content, _extract_texts); the parser has none
ArtifactLen == 3

\* a digit-only text of at most 3 characters
IsArtifact(t) ==
    /\ t.text # <<>>
    /\ Len(t.text) <= ArtifactLen
    /\ \A i \in 1..Len(t.text) : IsDigit(t.text[i])
NotArtifact(t) == ~IsArtifact(t)

TotalChars(text_content) == Len(Flatten(TextsOf(text_content)))

\* C13: the classification, the element count and the total character
\* count of a parsed slide are what they are without its digit-only
\* TextItems of at most 3 characters.
C13_ArtifactsExcluded ==
    returned # None =>
        LET cleaned == [returned EXCEPT !.text_content = SelectSeq(@, NotArtifact)]
        IN  /\ analyze_content_type(returned) = analyze_content_type(cleaned)
            /\ Len(returned.text_content) = Len(cleaned.text_content)
            /\ TotalChars(returned.text_content) = TotalChars(cleaned.text_content)

-----------------------------------------------------------------------------
(* DesignIntelligence.get_layout_recommendation and calculate_font_sizes   *)
(* (ai_analyzer.py), and the per-slide body of analyze_presentation.       *)

\* `element_count > 2`
BodyLayoutLimit == 2

\* the keys of the layouts table
LayoutKeys ==
    {"title_slide", "data_presentation", "process", "comparison", "timeline",
     "closing", "standard_content", "detailed_content"}

\* layouts[key], for a key of the table
LayoutEntry(key, element_count) ==
    CASE key = "title_slide" ->
            [type |-> "centered", title_position |-> "center", columns |-> 1,
             vertical_balance |-> "center"]
      [] key = "data_presentation" ->
            [type |-> "split", title_position |-> "top", columns |-> 2,
             chart_position |-> "right"]
      [] key = "process" ->
            [type |-> "horizontal_flow", title_position |-> "top", columns |-> "auto",
             element_style |-> "connected"]
      [] key = "comparison" ->
            [type |-> "side_by_side", title_position |-> "top", columns |-> 2,
             visual_separator |-> TRUE]
      [] key = "timeline" ->
            [type |-> "horizontal_timeline", title_position |-> "top",
             flow_direction |-> "left_to_right"]
      [] key = "closing" ->
            [type |-> "centered", title_position |-> "center", columns |-> 1,
             emphasis |-> "high"]
      [] key = "standard_content" ->
            [type |-> "title_body", title_position |-> "top", columns |-> 1,
             body_layout |-> IF element_count > BodyLayoutLimit THEN "bullets"
                             ELSE "paragraphs"]
      [] key = "detailed_content" ->
            [type |-> "two_column_content", title_position |-> "top", columns |-> 2,
             body_layout |-> "split_bullets"]

\* a planner whose lookup has an empty default
get_layout_recommendation_nodefault(content_type, element_count) ==
    IF content_type \in LayoutKeys THEN LayoutEntry(content_type, element_count)
    ELSE EmptyDict

\* a planner whose closing recipe carries no emphasis
get_layout_recommendation_plainclosing(content_type, element_count) ==
    IF content_type = "closing"
    THEN [type |-> "centered", title_position |-> "center", columns |-> 1,
          emphasis |-> "normal"]
    ELSE IF content_type \in LayoutKeys THEN LayoutEntry(content_type, element_count)
    ELSE LayoutEntry("standard_content", element_count)

\* layouts.get(content_type, layouts["standard_content"])
get_layout_recommendation(content_type, element_count) ==
    IF content_type \in LayoutKeys THEN LayoutEntry(content_type, element_count)
    ELSE LayoutEntry("standard_content", element_count)

\* sum(len(t.get("text", "")) for t in text_content)
RECURSIVE total_text_length(_)
total_text_length(text_content) ==
    IF text_content = <<>> THEN 0
    ELSE Len(text_content[1].text) + total_text_length(Tail(text_content))

\* larger fonts for longer texts
font_band_inverted(total) ==
    IF total < 100 THEN [title |-> 32, subtitle |-> 18, body |-> 14, caption |-> 10]
    ELSE IF total < 300 THEN [title |-> 36, subtitle |-> 20, body |-> 16, caption |-> 11]
    ELSE IF total < 500 THEN [title |-> 40, subtitle |-> 22, body |-> 18, caption |-> 12]
    ELSE [title |-> 44, subtitle |-> 24, body |-> 20, caption |-> 14]

\* lines 373-380: the band of a total text length
font_band(total) ==
    IF total < 100 THEN [title |-> 44, subtitle |-> 24, body |-> 20, caption |-> 14]
    ELSE IF total < 300 THEN [title |-> 40, subtitle |-> 22, body |-> 18, caption |-> 12]
    ELSE IF total < 500 THEN [title |-> 36, subtitle |-> 20, body |-> 16, caption |-> 11]
    ELSE [title |-> 32, subtitle |-> 18, body |-> 14, caption |-> 10]

\* fonts of the 960x540 base slide, one band lower on a wider slide
calculate_font_sizes_scaled(text_content, slide_width, slide_height) ==
    IF slide_width > 960 THEN font_band(total_text_length(text_content) + 200)
    ELSE font_band(total_text_length(text_content))

\* calculate_font_sizes: slide_width and slide_height are not read
calculate_font_sizes(text_content, slide_width, slide_height) ==
    font_band(total_text_length(text_content))

\* lines 275-291 of analyze_presentation: the analysis of one slide
analyze_slide(slide_data) ==
    LET content_type == analyze_content_type(slide_data)
    IN  [content_type |-> content_type,
         layout_recommendation |->
             get_layout_recommendation(content_type, Len(slide_data.text_content)),
         font_sizes |-> calculate_font_sizes(slide_data.text_content, 960, 540)]

-----------------------------------------------------------------------------
(* SpecPlan: get_layout_recommendation applied to every label and count.   *)

\* the labels of the table, the classifier's labels that have no entry,
\* and a label nobody produces
ContentTypePool == LayoutKeys \cup {"qa", "image_focused", "empty", "infographic"}

MaxElements == 5

InitPlan ==
    /\ given \in [content_type : ContentTypePool, element_count : 0..MaxElements]
    /\ returned = None
    /\ IdleClassify /\ IdleParse /\ IdleSessions

\* layout_rec = design_intel.get_layout_recommendation(content_type, n)
Recommend ==
    /\ returned = None
    /\ returned' = get_layout_recommendation(given.content_type, given.element_count)
    /\ UNCHANGED <<slide, label, calls, given, archive, parsed, sessions, issued, disk,
                   inflight, last>>

NextPlan == Recommend

SpecPlan == InitPlan /\ [][NextPlan]_vars

\* C14: for a label that has no entry in the table the plan returned is
\* the standard_content recipe (title_body, title on top, 1 column, bullets
\* above 2 elements and paragraphs otherwise).
C14_UnknownLabelFallback ==
    (returned # None /\ given.content_type \notin LayoutKeys)
    => returned = [type |-> "title_body", title_position |-> "top", columns |-> 1,
                   body_layout |-> IF given.element_count > 2 THEN "bullets"
                                   ELSE "paragraphs"]

C14_Witness ==
    /\ returned # None
    /\ given.content_type = "qa"
    /\ given.element_count = 3
    /\ returned.type = "title_body"
    /\ returned.body_layout = "bullets"

-----------------------------------------------------------------------------
(* SpecFonts: calculate_font_sizes applied to texts of every total length  *)
(* up to MaxChars, on two slide sizes.                                     *)

MaxChars == 520

\* a text of n characters
Filler(n) == [i \in 1..n |-> "x"]

\* one TextItem of every length, and a title with a body whose lengths
\* lie around the thresholds
FontTexts ==
    { <<>> }
    \cup { << TextItem("body", Filler(n)) >> : n \in 0..MaxChars }
    \cup { << TextItem("title", Filler(a)), TextItem("body", Filler(b)) >> :
             a \in {1, 50, 99, 100, 150}, b \in {0, 1, 50, 149, 150, 200, 349, 350, 400} }

SlideSizes == { [width |-> 960, height |-> 540], [width |-> 1280, height |-> 720] }

InitFonts ==
    /\ given \in [text_content : FontTexts, size : SlideSizes]
    /\ returned = None
    /\ IdleClassify /\ IdleParse /\ IdleSessions

\* font_sizes = design_intel.calculate_font_sizes(text_content, w, h)
CalculateFonts ==
    /\ returned = None
    /\ returned' = calculate_font_sizes(given.text_content, given.size.width,
                                        given.size.height)
    /\ UNCHANGED <<slide, label, calls, given, archive, parsed, sessions, issued, disk,
                   inflight, last>>

NextFonts == CalculateFonts

SpecFonts == InitFonts /\ [][NextFonts]_vars

\* the characters of all TextItems together
C16_Count == Len(Flatten(TextsOf(given.text_content)))

\* C16: the sizes returned are 44/24/20/14 below 100 characters,
\* 40/22/18/12 below 300, 36/20/16/11 below 500 and 32/18/14/10 from 500
\* on, whatever the slide width and height.
C16_FontBands ==
    returned # None =>
        returned =
            CASE C16_Count < 100 -> [title |-> 44, subtitle |-> 24, body |-> 20, caption |-> 14]
              [] C16_Count >= 100 /\ C16_Count < 300 ->
                    [title |-> 40, subtitle |-> 22, body |-> 18, caption |-> 12]
              [] C16_Count >= 300 /\ C16_Count < 500 ->
                    [title |-> 36, subtitle |-> 20, body |-> 16, caption |-> 11]
              [] OTHER -> [title |-> 32, subtitle |-> 18, body |-> 14, caption |-> 10]

\* 450 characters on the larger slide
C16_Witness ==
    /\ returned # None
    /\ C16_Count = 450
    /\ given.size.width = 1280
    /\ returned = [title |-> 36, subtitle |-> 20, body |-> 16, caption |-> 11]

\* C17: no size returned for a slide is smaller than the size selected
\* for any larger character count.
C17_FontMonotone ==
    returned # None =>
        \A c2 \in 0..(MaxChars + 1) :
            C16_Count < c2 =>
                /\ returned.title >= font_band(c2).title
                /\ returned.subtitle >= font_band(c2).subtitle
                /\ returned.body >= font_band(c2).body
                /\ returned.caption >= font_band(c2).caption

\* the sizes drop between 299 and 300 characters
C17_Witness ==
    /\ returned # None
    /\ C16_Count = 299
    /\ returned.title > font_band(300).title
    /\ returned.caption > font_band(300).caption

-----------------------------------------------------------------------------
(* SpecAnalyze: the per-slide body of analyze_presentation applied to      *)
(* every slide input.                                                      *)

InitAnalyze ==
    /\ given \in SlideInputs
    /\ returned = None
    /\ IdleClassify /\ IdleParse /\ IdleSessions

\* one turn of the loop over the slides in analyze_presentation
AnalyzeSlide ==
    /\ returned = None
    /\ returned' = analyze_slide(given)
    /\ UNCHANGED <<slide, label, calls, given, archive, parsed, sessions, issued, disk,
                   inflight, last>>

NextAnalyze == AnalyzeSlide

SpecAnalyze == InitAnalyze /\ [][NextAnalyze]_vars

\* the body-typed TextItems of the slide analysed
C15_BodyCount == Len(SelectSeq(given.text_content, IsBodyItem))

\* C15: the plan of a slide classified standard_content arranges the body
\* as bullets exactly when the slide has more than 2 body-typed TextItems,
\* and as paragraphs otherwise.
C15_BulletsByBodyCount ==
    (returned # None /\ returned.content_type = "standard_content")
    => /\ C15_BodyCount > 2 => returned.layout_recommendation.body_layout = "bullets"
       /\ C15_BodyCount <= 2 => returned.layout_recommendation.body_layout = "paragraphs"

\* C18: a slide with more than 4 body TextItems, no chart or table, a
\* closing keyword (thank, contact) and no keyword of the process,
\* comparison, timeline or qa groups is classified closing and planned
\* centered, in 1 column, with high emphasis.
C18_ClosingBeatsDetailed ==
    ( /\ returned # None
      /\ C15_BodyCount > 4
      /\ ~given.has_chart /\ ~given.has_table
      /\ \/ Contains(AllText(given.text_content), <<"t","h","a","n","k">>)
         \/ Contains(AllText(given.text_content), <<"c","o","n","t","a","c","t">>)
      /\ ~AnyWordIn(AllText(given.text_content),
                    ProcessWords \o ComparisonWords \o TimelineWords \o QaWords) )
    => /\ returned.content_type = "closing"
       /\ returned.layout_recommendation.type = "centered"
       /\ returned.layout_recommendation.columns = 1
       /\ returned.layout_recommendation.emphasis = "high"

\* five body items, one of them "Contact us"
C18_Witness ==
    /\ returned # None
    /\ Len(given.text_content) = 5
    /\ C15_BodyCount = 5
    /\ ~given.has_chart /\ ~given.has_table
    /\ \E i \in 1..5 : given.text_content[i].text = Txt_Contact
    /\ \E i \in 1..5 : given.text_content[i].text = Txt_Hello
    /\ returned.content_type = "closing"
    /\ returned.layout_recommendation.emphasis = "high"

-----------------------------------------------------------------------------
(* SpecRender: the classifier and the engine's _determine_layout, without  *)
(* an advisor, applied to every pair of slides.                            *)

RenderItems ==
    { TextItem("title", Txt_Welcome), TextItem("body", Txt_ThankYou),
      TextItem("body", Txt_Hello) }

MaxRenderItems == 2

RenderSlides ==
    { [text_content |-> tc, images |-> im, has_chart |-> hc, has_table |-> FALSE] :
        tc \in SeqsUpTo(RenderItems, MaxRenderItems),
        im \in {<<>>, <<ImageRef>>}, hc \in BOOLEAN }

InitRender ==
    /\ given \in [1..2 -> RenderSlides]
    /\ returned = None
    /\ IdleClassify /\ IdleParse /\ IdleSessions

\* content_type = design_intel.analyze_content_type(slide) in the analyze
\* stage; layout_type = self._determine_layout(slide, None) in the engine
LabelAndLayout ==
    /\ returned = None
    /\ returned' = [labels |-> [i \in 1..2 |-> analyze_content_type(given[i])],
                    layouts |-> [i \in 1..2 |-> determine_layout(given[i], None).val]]
    /\ UNCHANGED <<slide, label, calls, given, archive, parsed, sessions, issued, disk,
                   inflight, last>>

NextRender == LabelAndLayout

SpecRender == InitRender /\ [][NextRender]_vars

\* C25: without an advisor the layout the engine gives a slide is decided
\* by the classifier's label: two slides with the same label get the same
\* layout, and a slide labelled data_presentation is not laid out as
\* closing.
C25_LayoutFollowsLabel ==
    returned # None =>
        /\ returned.labels[1] = returned.labels[2]
           => returned.layouts[1] = returned.layouts[2]
        /\ \A i \in 1..2 :
              returned.labels[i] = "data_presentation" => returned.layouts[i] # "closing"

-----------------------------------------------------------------------------
(* The Flask application (app.py): one session store, one disk.            *)

SessionIds == {"s1", "s2"}

\* the ids uuid.uuid4() hands out to uploads
UploadIds == {"s1"}

\* get_style_by_name knows these ids
StyleLibrary == {"executive_minimal", "corporate_blue"}

\* the style_id a redesign request may carry ("None": no style_id)
StyleRequests == StyleLibrary \cup {"None", "no_such_style"}

\* the api_key a redesign request may carry
ApiKeys == {"None", "r8_key"}

\* the files that get uploaded: not an archive; a deck of two slides listed
\* out of order; a deck without slide parts
Deck_Two ==
    [is_zip |-> TRUE, manifest |-> "ok",
     listing |-> << [name |-> Name_slide2, part |-> Part_Body],
                    [name |-> Name_rels, part |-> Part_Corrupt],
                    [name |-> Name_slide1, part |-> Part_Title] >>]
Deck_Empty == [is_zip |-> TRUE, manifest |-> "ok", listing |-> <<>>]

UploadPool == {NotAZip, Deck_Two, Deck_Empty}

\* what the Design Advisor may answer to one call
Fail == [kind |-> "fail"]
Json(v) == [kind |-> "json", json |-> v]

\* well-shaped answers to the holistic, the visual-concept and a slide call
GoodAnalysis == Json([presentation_type |-> "pitch", visual_mood |-> "bold"])
GoodConcept == Json([concept_name |-> "Aurora", visual_motif |-> "waves"])
GoodSlide == Json([slide_role |-> "Overview", layout |-> [type |-> "two_column"]])

\* answers to the holistic and to the visual-concept call
AnalysisOutcomes == {Fail, GoodAnalysis, Json(NonDict)}
ConceptOutcomes == {Fail, GoodConcept, Json(NonDict)}

\* answers to a single-slide call: a well-shaped record, one without a
\* layout, one whose layout names no known layout type, one whose layout
\* is a string, one whose typography is a string, and a JSON list
SlideOutcomes ==
    {Fail,
     GoodSlide,
     Json([slide_role |-> "Overview", purpose |-> "inform"]),
     Json([slide_role |-> "Overview", layout |-> [type |-> "hero"]]),
     Json([slide_role |-> "Overview", layout |-> NonDict]),
     Json([slide_role |-> "Overview", layout |-> [type |-> "closing"],
           typography |-> NonDict]),
     Json(NonDict)}

\* the outcomes of the 2 + n calls of one redesign request over n slides:
\* every call fails; the deck-level calls vary while the slide calls are
\* answered well; the first slide call varies while the other calls are
\* answered well
AdvisorOutcomes(n) ==
    {[i \in 1..(2 + n) |-> Fail]}
    \cup {<<a, c>> \o [i \in 1..n |-> GoodSlide] :
             a \in AnalysisOutcomes, c \in ConceptOutcomes}
    \cup {<<GoodAnalysis, GoodConcept>> \o [i \in 1..n |-> IF i = k THEN o ELSE GoodSlide] :
             k \in {1} \cap (1..n), o \in SlideOutcomes}

\* get_session: the record a first reference creates
NewSession ==
    [status |-> "initialized", original_file |-> None, parsed_content |-> None,
     selected_style |-> "None", redesigned_slides |-> None, output_file |-> None]

\* the files of one session: the upload and the thumbnails under
\* UPLOAD_FOLDER/<id>, the HTML renders and the exported document under
\* OUTPUT_FOLDER/<id>, and the images _generate_slide_image saved with
\* tempfile.mktemp in the system's temporary directory
NoFiles == [upload |-> FALSE, thumbnails |-> FALSE, html |-> 0, pptx |-> None,
            images |-> FALSE]

\* a get_session that hands out a fresh record on every reference
get_session_fresh(session_id) == NewSession

get_session(session_id) ==
    IF sessions[session_id] = None THEN NewSession ELSE sessions[session_id]

NoRequest == [none |-> TRUE]
Response(op, sid, code, req) == [op |-> op, sid |-> sid, code |-> code, req |-> req]

Init ==
    /\ sessions = [s \in SessionIds |-> None]
    /\ issued = {}
    /\ disk = [s \in SessionIds |-> NoFiles]
    /\ inflight = None
    /\ last = None
    /\ IdleClassify /\ IdleParse /\ IdleFunction

unchanged_other == UNCHANGED <<slide, label, calls, given, returned, archive, parsed>>

\* POST /api/upload with a .pptx file: a fresh session holding the file,
\* under an id uuid4 draws from ids
upload_file_with(ids, file) ==
    \E session_id \in ids \ issued :
        /\ sessions[session_id] = None
        /\ issued' = issued \cup {session_id}
        /\ sessions' = [sessions EXCEPT ![session_id] =
                           [NewSession EXCEPT !.original_file = Some(file),
                                              !.status = "uploaded"]]
        /\ disk' = [disk EXCEPT ![session_id].upload = TRUE]
        /\ last' = Response("upload", session_id, 200, NoRequest)
        /\ UNCHANGED inflight
        /\ unchanged_other

upload_file(file) == upload_file_with(UploadIds, file)

\* POST /api/upload without a file or with another extension
upload_rejected ==
    /\ last' = Response("upload", "none", 400, NoRequest)
    /\ UNCHANGED <<sessions, issued, disk, inflight>>
    /\ unchanged_other

\* a handler that reports the failure but leaves the status alone
parse_presentation_update_silent(session, result) ==
    IF result.ok
    THEN [session EXCEPT !.parsed_content = Some(result.deck), !.status = "parsed"]
    ELSE session

\* lines 182-233 of parse_presentation: the session after the parse
parse_presentation_update(session, result) ==
    IF result.ok
    THEN [session EXCEPT !.parsed_content = Some(result.deck), !.status = "parsed"]
    ELSE [session EXCEPT !.status = "error"]

\* POST /api/sessions/<id>/parse
parse_presentation(session_id) ==
    LET session == get_session(session_id)
    IN  IF session.original_file = None
        THEN /\ sessions' = [sessions EXCEPT ![session_id] = session]
             /\ last' = Response("parse", session_id, 400, NoRequest)
             /\ UNCHANGED <<issued, disk, inflight>>
             /\ unchanged_other
        ELSE \E result \in {parse(session.original_file.val)} :
                 /\ sessions' = [sessions EXCEPT ![session_id] =
                                    parse_presentation_update(session, result)]
                 /\ disk' = [disk EXCEPT ![session_id].thumbnails =
                                IF result.ok THEN TRUE ELSE @]
                 /\ last' = Response("parse", session_id,
                                     IF result.ok THEN 200 ELSE 500,
                                     [before |-> session.parsed_content])
                 /\ UNCHANGED <<issued, inflight>>
                 /\ unchanged_other

\* an analyze that does not look for the parsed deck
analyze_presentation_unchecked(session_id) ==
    LET session == get_session(session_id)
    IN  /\ sessions' = [sessions EXCEPT ![session_id] =
                           [session EXCEPT !.status = "analyzed"]]
        /\ last' = Response("analyze", session_id, 200, NoRequest)
        /\ UNCHANGED <<issued, disk, inflight>>
        /\ unchanged_other

\* POST /api/sessions/<id>/analyze (the AI analyzer catches its own errors)
analyze_presentation(session_id) ==
    LET session == get_session(session_id)
    IN  /\ IF session.parsed_content = None
           THEN /\ sessions' = [sessions EXCEPT ![session_id] = session]
                /\ last' = Response("analyze", session_id, 400, NoRequest)
           ELSE /\ sessions' = [sessions EXCEPT ![session_id] =
                                   [session EXCEPT !.status = "analyzed"]]
                /\ last' = Response("analyze", session_id, 200, NoRequest)
        /\ UNCHANGED <<issued, disk, inflight>>
        /\ unchanged_other

\* lines 345-347, 353-354 of redesign_presentation: the request is accepted,
\* the style is stored and the Design Advisor (or the engine) is started.
\* One redesign request is in progress at a time.
redesign_begin(session_id, style_id, use_ai_design) ==
    LET session == get_session(session_id)
    IN  /\ session.parsed_content # None
        /\ style_id \in StyleLibrary
        /\ inflight = None
        /\ sessions' = [sessions EXCEPT ![session_id] =
                           [session EXCEPT !.selected_style = style_id,
                                           !.status = IF use_ai_design THEN "ai_analyzing"
                                                      ELSE "redesigning"]]
        /\ inflight' = Some([sid |-> session_id, use_ai_design |-> use_ai_design,
                             slides_data |-> session.parsed_content.val.slides,
                             detached |-> FALSE])
        /\ UNCHANGED <<issued, disk, last>>
        /\ unchanged_other

\* lines 329-343 of redesign_presentation: no parsed deck, no style_id, or
\* a style_id the library does not know
redesign_rejected(session_id, style_id) ==
    LET session == get_session(session_id)
    IN  /\ session.parsed_content = None \/ style_id \notin StyleLibrary
        /\ sessions' = [sessions EXCEPT ![session_id] = session]
        /\ last' = Response("redesign", session_id, 400, NoRequest)
        /\ UNCHANGED <<issued, disk, inflight>>
        /\ unchanged_other

\* lines 356-369: the advisor's result, None when it is not used or raises
ai_design_result_of(req, api_key, outcomes) ==
    IF ~req.use_ai_design THEN None
    ELSE LET r == analyze_and_design(req.slides_data, api_key, outcomes)
         IN  IF r.raised THEN None ELSE Some(r.val)

\* lines 412-422: building ai_insights calls .get on presentation_analysis
\* and on visual_concept
insights_raise(ai_design_result) ==
    /\ ai_design_result # None
    /\ \/ ~IsDict(ai_design_result.val.presentation_analysis)
       \/ ~IsDict(ai_design_result.val.visual_concept)

\* lines 371-434: what the request does once the advisor has answered
redesign_result(req, api_key, outcomes) ==
    LET ai_design_result == ai_design_result_of(req, api_key, outcomes)
        redesigned == redesign(req.slides_data, ai_design_result)
    IN  IF redesigned.raised
        THEN [code |-> 500, status |-> "error", redesigned_slides |-> None, html |-> 0]
        ELSE IF insights_raise(ai_design_result)
        THEN [code |-> 500, status |-> "error",
              redesigned_slides |-> Some(redesigned.val), html |-> Len(redesigned.val)]
        ELSE [code |-> 200, status |-> "redesigned",
              redesigned_slides |-> Some(redesigned.val), html |-> Len(redesigned.val)]

\* the advisor is only called over the network with an API key
OutcomesFor(req, api_key) ==
    IF req.use_ai_design /\ api_key # "None"
    THEN AdvisorOutcomes(Len(req.slides_data))
    ELSE {[i \in 1..(2 + Len(req.slides_data)) |-> Fail]}

\* the rest of redesign_presentation, after the advisor's calls returned
redesign_finish ==
    /\ inflight # None
    /\ LET req == inflight.val
           sid == req.sid
       IN  \E api_key \in ApiKeys : \E outcomes \in OutcomesFor(req, api_key) :
              \E r \in {redesign_result(req, api_key, outcomes)} :
                  /\ sessions' =
                        IF req.detached THEN sessions
                        ELSE [sessions EXCEPT ![sid] =
                                 [@ EXCEPT !.status = r.status,
                                           !.redesigned_slides =
                                               IF r.redesigned_slides = None THEN @
                                               ELSE r.redesigned_slides]]
                  /\ disk' = [disk EXCEPT ![sid].html =
                                 IF r.redesigned_slides = None THEN @ ELSE r.html]
                  /\ last' = Response("redesign", sid, r.code,
                                      [use_ai_design |-> req.use_ai_design,
                                       api_key |-> api_key,
                                       slides_data |-> req.slides_data,
                                       detached |-> req.detached,
                                       outcomes |-> outcomes])
    /\ inflight' = None
    /\ UNCHANGED issued
    /\ unchanged_other

\* `if not slides_data` : None and the empty list are both falsy
Falsy(opt) == opt = None \/ opt.val = <<>>

\* generate_professional_pptx: render[i] tells whether slide i renders
\* ("ok"), renders with an image generated for it ("ok_image"), makes the AI
\* generator raise ("ai_raises") or makes both the AI generator and the
\* template exporter raise ("both_raise").
AiRenders(x) == x \in {"ok", "ok_image"}

\* generate_professional_pptx: the file written, or None
generate_professional_pptx(session, render) ==
    IF Falsy(session.redesigned_slides) THEN None
    ELSE LET slides_data == session.redesigned_slides.val
                 file(by) == Some([nslides |-> Len(slides_data), by |-> by,
                               style |-> session.selected_style])
         IN  IF \A i \in 1..Len(slides_data) : AiRenders(render[i]) THEN file("ai")
             ELSE IF \A i \in 1..Len(slides_data) : render[i] # "both_raise"
             THEN file("template")
             ELSE None

\* one outcome per slide of the session's redesigned deck, the same for
\* every slide
RenderOutcomes(session) ==
    IF Falsy(session.redesigned_slides) THEN {<<>>}
    ELSE {[i \in 1..Len(session.redesigned_slides.val) |-> x] :
             x \in {"ok", "ok_image", "ai_raises", "both_raise"}}

\* _generate_slide_image, lines 382-386: whether image files of the session
\* lie in the temporary directory after generate_professional_pptx ran
images_after(session, render, images) ==
    \/ images
    \/ /\ ~Falsy(session.redesigned_slides)
       /\ \E i \in 1..Len(render) : render[i] = "ok_image"

\* POST /api/sessions/<id>/export
export_presentation_endpoint(session_id, render) ==
    LET session == get_session(session_id)
    IN  IF Falsy(session.redesigned_slides)
        THEN /\ sessions' = [sessions EXCEPT ![session_id] = session]
             /\ last' = Response("export", session_id, 400, NoRequest)
             /\ UNCHANGED <<issued, disk, inflight>>
             /\ unchanged_other
        ELSE \E output \in {generate_professional_pptx(session, render)} :
                 /\ sessions' = [sessions EXCEPT ![session_id] =
                                    IF output = None THEN session
                                    ELSE [session EXCEPT !.output_file = Some("pptx"),
                                                         !.status = "exported"]]
                 /\ disk' = [disk EXCEPT ![session_id].pptx =
                                IF output = None THEN @ ELSE output,
                                          ![session_id].images =
                                images_after(session, render, @)]
                 /\ last' = Response("export", session_id,
                                     IF output = None THEN 500 ELSE 200,
                                     [render |-> render])
                 /\ UNCHANGED <<issued, inflight>>
                 /\ unchanged_other

\* GET /api/sessions/<id>/download
download_presentation(session_id, render) ==
    LET session == get_session(session_id)
        regenerate == session.output_file = None \/ disk[session_id].pptx = None
        output == IF regenerate THEN generate_professional_pptx(session, render) ELSE None
        pptx == IF output = None THEN disk[session_id].pptx ELSE output
        after == IF output = None THEN session
                 ELSE [session EXCEPT !.output_file = Some("pptx")]
    IN  /\ sessions' = [sessions EXCEPT ![session_id] = after]
        /\ disk' = [disk EXCEPT ![session_id].pptx = pptx,
                                ![session_id].images =
                                    IF regenerate THEN images_after(session, render, @)
                                    ELSE @]
        /\ last' = Response("download", session_id,
                            IF after.output_file # None /\ pptx # None THEN 200 ELSE 404,
                            NoRequest)
        /\ UNCHANGED <<issued, inflight>>
        /\ unchanged_other

\* GET /api/sessions/<id>: len(session.get('redesigned_slides', [])) raises
\* while redesigned_slides is None
get_session_status(session_id) ==
    /\ last' = Response("status", session_id,
                        IF sessions[session_id] = None THEN 404
                        ELSE IF sessions[session_id].redesigned_slides = None THEN 500
                        ELSE 200,
                        NoRequest)
    /\ UNCHANGED <<sessions, issued, disk, inflight>>
    /\ unchanged_other

\* a delete that removes the whole OUTPUT_FOLDER instead of the session's
\* directory in it
delete_session_shared(session_id) ==
    /\ IF sessions[session_id] # None
       THEN /\ sessions' = [sessions EXCEPT ![session_id] = None]
            /\ disk' = [s \in SessionIds |->
                           IF s = session_id
                           THEN [NoFiles EXCEPT !.images = disk[s].images]
                           ELSE [disk[s] EXCEPT !.html = 0, !.pptx = None]]
            /\ inflight' = IF inflight # None /\ inflight.val.sid = session_id
                           THEN Some([inflight.val EXCEPT !.detached = TRUE])
                           ELSE inflight
       ELSE UNCHANGED <<sessions, disk, inflight>>
    /\ last' = Response("delete", session_id, 200, NoRequest)
    /\ UNCHANGED issued
    /\ unchanged_other

\* DELETE /api/sessions/<id>: a request in progress keeps its own reference
\* to the deleted record
delete_session(session_id) ==
    /\ IF sessions[session_id] # None
       THEN /\ sessions' = [sessions EXCEPT ![session_id] = None]
            /\ disk' = [disk EXCEPT ![session_id] =
                           [NoFiles EXCEPT !.images = disk[session_id].images]]
            /\ inflight' = IF inflight # None /\ inflight.val.sid = session_id
                           THEN Some([inflight.val EXCEPT !.detached = TRUE])
                           ELSE inflight
       ELSE UNCHANGED <<sessions, disk, inflight>>
    /\ last' = Response("delete", session_id, 200, NoRequest)
    /\ UNCHANGED issued
    /\ unchanged_other

Next ==
    \/ \E file \in UploadPool : upload_file(file)
    \/ upload_rejected
    \/ \E session_id \in SessionIds : parse_presentation(session_id)
    \/ \E session_id \in SessionIds : analyze_presentation(session_id)
    \/ \E session_id \in SessionIds, style_id \in StyleLibrary,
          use_ai_design \in BOOLEAN :
            redesign_begin(session_id, style_id, use_ai_design)
    \/ \E session_id \in SessionIds, style_id \in StyleRequests :
            redesign_rejected(session_id, style_id)
    \/ redesign_finish
    \/ \E session_id \in SessionIds :
          \E render \in RenderOutcomes(get_session(session_id)) :
            export_presentation_endpoint(session_id, render)
    \/ \E session_id \in SessionIds :
          \E render \in RenderOutcomes(get_session(session_id)) :
            download_presentation(session_id, render)
    \/ \E session_id \in SessionIds : get_session_status(session_id)
    \/ \E session_id \in SessionIds : delete_session(session_id)

Spec == Init /\ [][Next]_vars

-----------------------------------------------------------------------------
(* C4 - C7, C9: the responses of the application, read off the last       *)
(* response and the session it answered.                                   *)

\* the last response answered a request that got past the 400 checks
Answered(op) == last # None /\ last.op = op /\ last.code # 400

\* the last response answered a redesign that called the advisor over the
\* network, for a session that still exists
AdvisorCalled ==
    /\ Answered("redesign")
    /\ last.req.use_ai_design
    /\ last.req.api_key # "None"
    /\ ~last.req.detached

AllFail(outcomes) == \A i \in 1..Len(outcomes) : outcomes[i] = Fail

\* a slide record that lacks a layout, names no recognized layout type, or
\* has a field of the wrong shape
MalformedRecord(outcome) ==
    /\ outcome.kind = "json"
    /\ IsDict(outcome.json)
    /\ LET layout == Get(outcome.json, "layout", None)
       IN  \/ layout = None
           \/ ~IsDict(layout)
           \/ Get(layout, "type", "None") \notin Generators
           \/ \E k \in {"color_application", "visual_elements", "typography"} :
                 ~IsDict(Get(outcome.json, k, EmptyDict))

\* C4: when both generators raise on every slide of a redesigned deck of
\* N >= 1 slides, the export request still succeeds and leaves an output
\* file of exactly N slides.
C4_NeverEmptyOutput ==
    ( /\ Answered("export")
      /\ Len(last.req.render) >= 1
      /\ \A i \in 1..Len(last.req.render) : last.req.render[i] = "both_raise" )
    => /\ last.code = 200
       /\ disk[last.sid].pptx # None
       /\ disk[last.sid].pptx.val.nslides = Len(last.req.render)

\* C5: when every advisor call of a redesign request fails, the request
\* completes and every redesigned record carries the layout_type the
\* rule-based decision gives the same slide without an advisor.
C5_AdvisorDegradation ==
    (AdvisorCalled /\ AllFail(last.req.outcomes))
    => /\ last.code = 200
       /\ sessions[last.sid].redesigned_slides # None
       /\ LET redesigned == sessions[last.sid].redesigned_slides.val
              slides_data == last.req.slides_data
          IN  /\ Len(redesigned) = Len(slides_data)
              /\ \A i \in 1..Len(slides_data) :
                    redesigned[i].layout_type = rule_based_layout(slides_data[i])

\* C6: when the advisor's record for the first slide is malformed (the
\* other calls being answered well), the request completes, the record is
\* discarded and the slide gets its rule-based layout.
C6_RecordValidated ==
    ( /\ AdvisorCalled
      /\ Len(last.req.slides_data) >= 1
      /\ MalformedRecord(last.req.outcomes[3]) )
    => /\ last.code = 200
       /\ sessions[last.sid].redesigned_slides # None
       /\ LET first == sessions[last.sid].redesigned_slides.val[1]
          IN  /\ first.ai_instructions = None
              /\ first.layout_type = rule_based_layout(last.req.slides_data[1])

\* C7: a redesign request during which an advisor call failed or returned
\* data of an unexpected shape ends with a success response and status
\* 'redesigned'.
C7_AdvisorFailureInvisible ==
    ( /\ AdvisorCalled
      /\ \E i \in 1..Len(last.req.outcomes) :
            last.req.outcomes[i] \notin {GoodAnalysis, GoodConcept, GoodSlide} )
    => /\ last.code = 200
       /\ sessions[last.sid].status = "redesigned"

\* C20: once an advisor call of a redesign request has timed out, failed
\* or returned an unparsable response, no later advisor call of the same
\* request goes out over the network.
C20_NoRetryAfterFailure ==
    (Answered("redesign") /\ last.req.use_ai_design)
    => LET posts == advisor_posts(last.req.slides_data, last.req.api_key,
                                  last.req.outcomes)
       IN  \A i \in posts : \A j \in posts :
               (i < j) => last.req.outcomes[i] # Fail

\* the fields of a session record that start unset
SetFields(session) ==
    {f \in {"original_file", "parsed_content", "redesigned_slides", "output_file"} :
        session[f] # None}
    \cup (IF session.selected_style # "None" THEN {"selected_style"} ELSE {})

\* C21: a session record appears with status 'initialized' and every field
\* unset (an upload fills original_file and status in the same request),
\* and as long as the record exists no request, failing or not, unsets a
\* field that was set.
C21_FieldsMonotone ==
    [][ \A s \in SessionIds :
          /\ (sessions[s] = None /\ sessions'[s] # None)
             => \/ sessions'[s] = NewSession
                \/ /\ last'.op = "upload"
                   /\ sessions'[s] = [NewSession EXCEPT
                                         !.original_file = sessions'[s].original_file,
                                         !.status = "uploaded"]
          /\ (sessions[s] # None /\ sessions'[s] # None)
             => SetFields(sessions[s]) \subseteq SetFields(sessions'[s]) ]_vars

\* every field of the session is set and the last request on it failed
C21_Witness ==
    /\ last # None
    /\ last.op = "export"
    /\ last.code = 500
    /\ sessions[last.sid] # None
    /\ SetFields(sessions[last.sid]) =
          {"original_file", "parsed_content", "redesigned_slides", "output_file",
           "selected_style"}

\* C22: after a delete request the session has no record and none of the
\* files created for it is left: upload, thumbnails, HTML renders, exported
\* document, images generated during export.
C22_DeleteReleasesFiles ==
    (last # None /\ last.op = "delete")
    => /\ sessions[last.sid] = None
       /\ disk[last.sid] = NoFiles

\* what each status tells about the fields of the record
StatusOrdered(session) ==
    /\ session.status = "parsed" => session.original_file # None
    /\ session.status \in {"analyzed", "ai_analyzing", "redesigning", "redesigned"}
       => session.parsed_content # None
    /\ session.status = "exported"
       => /\ session.redesigned_slides # None
          /\ session.output_file # None

\* a step that answers a parse, analyze, redesign or export request with 400
RejectedStep ==
    /\ last' # None
    /\ last'.code = 400
    /\ last'.op \in {"parse", "analyze", "redesign", "export"}
    /\ inflight' = inflight

\* C30: the status of every session agrees with the fields stored, and a
\* rejected parse, analyze, redesign or export request leaves the status
\* and the fields of the session, and its files, as they were (a session
\* referenced for the first time gets its empty record).
C30_StageOrdering ==
    /\ [](\A s \in SessionIds : sessions[s] # None => StatusOrdered(sessions[s]))
    /\ [][ RejectedStep =>
             /\ sessions' = [sessions EXCEPT ![last'.sid] =
                                IF @ = None THEN NewSession ELSE @]
             /\ disk' = disk ]_vars

\* an export request is rejected on a session that holds a parsed deck
C30_Witness ==
    /\ last # None
    /\ last.op = "export" /\ last.code = 400
    /\ sessions[last.sid].status = "analyzed"
    /\ sessions[last.sid].parsed_content # None
    /\ sessions[last.sid].redesigned_slides = None

\* C26: the file a download serves, no redesign being in progress, was
\* generated from the session's current redesigned_slides and
\* selected_style.
C26_DownloadNeverStale ==
    ( /\ last # None
      /\ last.op = "download" /\ last.code = 200
      /\ inflight = None
      /\ sessions[last.sid].status \in {"redesigned", "exported"} )
    => /\ disk[last.sid].pptx.val.style = sessions[last.sid].selected_style
       /\ disk[last.sid].pptx.val.nslides = Len(sessions[last.sid].redesigned_slides.val)

\* C28: in every record of a redesigned deck the layout_type reported is
\* the name of the generator that produced the record's html.
C28_LayoutNamesGenerator ==
    \A s \in SessionIds :
        (sessions[s] # None /\ sessions[s].redesigned_slides # None)
        => \A i \in 1..Len(sessions[s].redesigned_slides.val) :
              sessions[s].redesigned_slides.val[i].layout_type =
                  sessions[s].redesigned_slides.val[i].html

-----------------------------------------------------------------------------
(* SpecFallback: _call_ai applied to the three kinds of prompt, each       *)
(* embedding every earlier result the pipeline may hand it.                *)

\* what an earlier call may have returned: a fallback record, an answer of
\* the model, or JSON that is no object
EarlierResults ==
    { FallbackAnalysis, FallbackConcept, FallbackSlide, FallbackDefault,
      [presentation_type |-> "pitch", visual_mood |-> "bold"],
      [concept_name |-> "Aurora", visual_motif |-> "waves"],
      NonDict }

\* the prompts: the holistic prompt embeds no earlier result
PromptInputs ==
    { [kind |-> "holistic", prompt |-> HolisticPrompt] }
    \cup { [kind |-> "concept", prompt |-> ConceptPrompt(e)] : e \in EarlierResults }
    \cup { [kind |-> "slide", prompt |-> SlidePrompt(e)] : e \in EarlierResults }

CallOutcomes ==
    { Fail, Json([presentation_type |-> "pitch", visual_mood |-> "bold"]),
      Json([concept_name |-> "Aurora", visual_motif |-> "waves"]),
      Json([slide_role |-> "Overview", layout |-> [type |-> "two_column"]]),
      Json(NonDict) }

InitFallback ==
    /\ given \in { [kind |-> p.kind, prompt |-> p.prompt, api_key |-> k, outcome |-> o] :
                     p \in PromptInputs, k \in {"None", "r8_key"}, o \in CallOutcomes }
    /\ returned = None
    /\ IdleClassify /\ IdleParse /\ IdleSessions

\* return await self._call_ai(prompt)
CallAi ==
    /\ returned = None
    /\ returned' = Some(call_ai(given.prompt, given.api_key, given.outcome))
    /\ UNCHANGED <<slide, label, calls, given, archive, parsed, sessions, issued, disk,
                   inflight, last>>

NextFallback == CallAi

SpecFallback == InitFallback /\ [][NextFallback]_vars

\* C27: without an API key, or when the call fails, _call_ai returns the
\* fallback record of the prompt's kind: the presentation analysis for the
\* holistic prompt, the visual concept for the visual-concept prompt, the
\* slide instructions (with a layout) for the single-slide prompt.
C27_FallbackMatchesPrompt ==
    (returned # None /\ (given.api_key = "None" \/ given.outcome = Fail))
    => CASE given.kind = "holistic" -> returned.val = FallbackAnalysis
         [] given.kind = "concept" ->
               returned.val = FallbackConcept /\ "concept_name" \in DOMAIN returned.val
         [] given.kind = "slide" ->
               returned.val = FallbackSlide /\ "layout" \in DOMAIN returned.val

-----------------------------------------------------------------------------
(* SpecIsolation: two sessions that both hold an uploaded deck, each going *)
(* through the whole pipeline, under every interleaving of their requests. *)

IsolationRenders(session) ==
    IF Falsy(session.redesigned_slides) THEN {<<>>}
    ELSE {[i \in 1..Len(session.redesigned_slides.val) |-> x] : x \in {"ok", "ok_image"}}

NextIsolation ==
    \/ upload_file_with(SessionIds, Deck_Two)
    \/ \E session_id \in SessionIds : parse_presentation(session_id)
    \/ \E session_id \in SessionIds : analyze_presentation(session_id)
    \/ \E session_id \in SessionIds :
            redesign_begin(session_id, "executive_minimal", FALSE)
    \/ redesign_finish
    \/ \E session_id \in SessionIds :
          \E render \in IsolationRenders(get_session(session_id)) :
            export_presentation_endpoint(session_id, render)
    \/ \E session_id \in SessionIds :
          \E render \in IsolationRenders(get_session(session_id)) :
            download_presentation(session_id, render)
    \/ \E session_id \in SessionIds : delete_session(session_id)

SpecIsolation == Init /\ [][NextIsolation]_vars

\* the session id the request of a step carries: the one of the redesign
\* it starts (the only step that leaves no response), else the one of the
\* response it leaves
StepSid ==
    IF inflight' # None /\ inflight' # inflight /\ last' = last
    THEN inflight'.val.sid
    ELSE IF last' # None THEN last'.sid
    ELSE "none"

EmptyDeckSession ==
    /\ last # None
    /\ last.op \in {"parse", "analyze", "redesign", "export", "download"}
    /\ sessions[last.sid] # None
    /\ sessions[last.sid].parsed_content # None
    /\ sessions[last.sid].parsed_content.val.slides = <<>>

\* C11: on a session whose deck has no slides, parse succeeds with zero
\* slides, analyze succeeds, a redesign with a valid style whose advisor
\* calls fail or are answered well succeeds, and after a completed redesign
\* export and download succeed and a file exists.
C11_EmptyDeckTolerated ==
    EmptyDeckSession =>
        CASE last.op = "parse" -> last.code = 200
          [] last.op = "analyze" -> last.code = 200
          [] last.op = "redesign" ->
                ( /\ last.req # NoRequest
                  /\ \A i \in 1..Len(last.req.outcomes) :
                        last.req.outcomes[i] \in {Fail, GoodAnalysis, GoodConcept} )
                => last.code = 200
          [] OTHER ->
                sessions[last.sid].status \in {"redesigned", "exported"}
                => (last.code = 200 /\ disk[last.sid].pptx # None)

\* C9: a parse request on a file that is no archive fails with an error
\* response, leaves status 'error' and leaves parsed_content as it was.
C9_NotAnArchive ==
    ( /\ Answered("parse")
      /\ ~sessions[last.sid].original_file.val.is_zip )
    => /\ last.code = 500
       /\ sessions[last.sid].status = "error"
       /\ sessions[last.sid].parsed_content = last.req.before

C9_Witness ==
    /\ Answered("parse")
    /\ ~sessions[last.sid].original_file.val.is_zip
    /\ last.code = 500
    /\ sessions[last.sid].parsed_content = None

-----------------------------------------------------------------------------
(* C3, C8, C10: what parse returns.                                        *)

\* the integers embedded in the file names of a list of slides
C3_Nums(slides) == [i \in 1..Len(slides) |-> ParseInt(SlideDigits(slides[i].filename))]

\* every order in which the same directory entries can be listed
C3_Orders(listing) ==
    { l \in [1..Len(listing) -> Range(listing)] : Range(l) = Range(listing) }

\* C3: slides[i].slide_number = i+1 (the model's sequences start at 1, so
\* the i-th slide has number i), the slides come in ascending order of the
\* integer embedded in their part name, and that order is the same for
\* every order in which the directory lists the parts.
C3_SlideOrder ==
    (parsed # None /\ parsed.ok) =>
        LET slides == parsed.deck.slides
        IN  /\ \A i \in 1..Len(slides) : slides[i].slide_number = i
            /\ \A i, j \in 1..Len(slides) :
                  i < j => C3_Nums(slides)[i] <= C3_Nums(slides)[j]
            /\ \A l \in C3_Orders(archive.listing) :
                  LET other == parse([archive EXCEPT !.listing = l])
                  IN  other.ok /\ C3_Nums(other.deck.slides) = C3_Nums(slides)

\* slide10.xml listed before slide2.xml comes out after it.
C3_Witness ==
    /\ parsed # None /\ parsed.ok
    /\ Len(archive.listing) >= 2
    /\ archive.listing[1].name = Name_slide10
    /\ archive.listing[2].name = Name_slide2
    /\ Len(parsed.deck.slides) >= 2
    /\ parsed.deck.slides[1].filename = Name_slide2
    /\ parsed.deck.slides[2].filename = Name_slide10

\* the slide files of the archive and those among them that do not parse
C8_SlideFiles(a) == { i \in 1..Len(a.listing) : IsSlideFile(a.listing[i].name) }
C8_Corrupt(a) == { i \in C8_SlideFiles(a) : ~a.listing[i].part.wellformed }

\* C8: when exactly one slide part of a deck fails to parse and the others
\* are well-formed, parse succeeds and returns the remaining slides,
\* numbered contiguously from 1.
C8_PartialSuccess ==
    ( /\ parsed # None
      /\ archive.is_zip /\ archive.manifest = "ok"
      /\ Cardinality(C8_Corrupt(archive)) = 1 )
    => /\ parsed.ok
       /\ Len(parsed.deck.slides) = Cardinality(C8_SlideFiles(archive)) - 1
       /\ \A i \in 1..Len(parsed.deck.slides) : parsed.deck.slides[i].slide_number = i

\* C10: an archive that opens but has no ppt/presentation.xml is rejected:
\* parse fails and returns no Deck.
C10_ManifestRequired ==
    (parsed # None /\ archive.is_zip /\ archive.manifest = "absent") => ~parsed.ok

-----------------------------------------------------------------------------
(* SpecClassify: the classifier applied to every slide input.              *)

InitClassify ==
    /\ slide \in SlideInputs
    /\ label = "unclassified"
    /\ calls = 0
    /\ IdleParse /\ IdleFunction /\ IdleSessions

\* how often one slide is classified
MaxCalls == 2

\* a classifier that remembers it has run: later calls answer from memory
\* and drop the first TextItem they were handed
Classify_remembering ==
    /\ calls < MaxCalls
    /\ label' = IF calls = 0 THEN analyze_content_type(slide) ELSE "standard_content"
    /\ slide' = IF calls = 0 \/ slide.text_content = <<>> THEN slide
                ELSE [slide EXCEPT !.text_content = Tail(@)]
    /\ calls' = calls + 1
    /\ UNCHANGED <<given, returned, archive, parsed, sessions, issued, disk,
                   inflight, last>>

\* content_type = design_intel.analyze_content_type(slide): the slide is
\* only read
Classify ==
    /\ calls < MaxCalls
    /\ label' = analyze_content_type(slide)
    /\ calls' = calls + 1
    /\ UNCHANGED <<slide, given, returned, archive, parsed, sessions, issued, disk,
                   inflight, last>>

NextClassify == Classify

SpecClassify == InitClassify /\ [][NextClassify]_vars

C29_QuestionsDecides ==
    \E s \in {slide} \cup SlideInputs :
        /\ analyze_content_type(s) = "closing"
        /\ Contains(AllText(s.text_content), <<"q","u","e","s","t","i","o","n","s","?">>)
        /\ ~Contains(AllText(s.text_content), <<"t","h","a","n","k">>)
        /\ ~Contains(AllText(s.text_content), <<"c","o","n","t","a","c","t">>)

-----------------------------------------------------------------------------
(* C1, C2: the classifier's rule order.                                    *)

\* The combined text of the claim: all TextItem texts, case folded.
C1_Text(s) == Lower(Join([i \in 1..Len(s.text_content) |-> s.text_content[i].text], <<" ">>))
C1_Hit(s, words) == \E w \in words : Contains(C1_Text(s), w)
C1_Rule1(s) == Len(s.text_content) = 0
C1_Rule2(s) ==
    /\ Len(s.text_content) <= 2
    /\ \E i \in 1..Len(s.text_content) : s.text_content[i].type \in {"ctrTitle", "subTitle"}
C1_Rule3(s) == s.has_chart \/ s.has_table
C1_Process(s)    == C1_Hit(s, {<<"s","t","e","p">>, <<"p","r","o","c","e","s","s">>,
                               <<"p","h","a","s","e">>, <<"s","t","a","g","e">>})
C1_Comparison(s) == C1_Hit(s, {<<"c","o","m","p","a","r","e">>, <<"v","e","r","s","u","s">>,
                               <<"v","s">>, <<"d","i","f","f","e","r","e","n","c","e">>})
C1_Timeline(s)   == C1_Hit(s, {<<"t","i","m","e","l","i","n","e">>,
                               <<"h","i","s","t","o","r","y">>, <<"r","o","a","d","m","a","p">>})
C1_Qa(s)         == C1_Hit(s, {<<"q","u","e","s","t","i","o","n">>, <<"?">>, <<"f","a","q">>})
C1_Closing(s)    == C1_Hit(s, {<<"t","h","a","n","k">>, <<"c","o","n","t","a","c","t">>,
                               <<"q","u","e","s","t","i","o","n","s","?">>})
C1_Rule5(s) == Cardinality({i \in 1..Len(s.text_content) : s.text_content[i].type = "body"}) > 4

C1_FirstMatch(s) ==
    CASE C1_Rule1(s)      -> (IF Len(s.images) > 0 THEN "image_focused" ELSE "empty")
      [] ~C1_Rule1(s) /\ C1_Rule2(s) -> "title_slide"
      [] ~C1_Rule1(s) /\ ~C1_Rule2(s) /\ C1_Rule3(s) -> "data_presentation"
      [] OTHER ->
           IF C1_Process(s) THEN "process"
           ELSE IF C1_Comparison(s) THEN "comparison"
           ELSE IF C1_Timeline(s) THEN "timeline"
           ELSE IF C1_Qa(s) THEN "qa"
           ELSE IF C1_Closing(s) THEN "closing"
           ELSE IF C1_Rule5(s) THEN "detailed_content"
           ELSE "standard_content"

\* C1: for every slide input analyze_content_type returns the label of the
\* first matching rule, in the order (1) no TextItems, (2) title slide,
\* (3) chart or table, (4) the keyword groups process, comparison, timeline,
\* qa, closing, (5) more than 4 body items, (6) standard_content.
C1_FirstMatchingRule ==
    label # "unclassified" => label = C1_FirstMatch(slide)

\* A keyword rule deciding a slide that also has more than 4 body items.
C1_Witness ==
    /\ label = "comparison"
    /\ C1_Rule5(slide)
    /\ C1_Closing(slide)

\* C2: a slide with at least one TextItem that is not a title slide by the
\* two-item rule and has a chart or a table is data_presentation, whatever
\* keywords its text contains.
C2_StructuralBeforeLexical ==
    ( /\ label # "unclassified"
      /\ ~C1_Rule1(slide) /\ ~C1_Rule2(slide)
      /\ (slide.has_chart \/ slide.has_table) )
    => label = "data_presentation"

\* A chart slide whose text holds both a process and a closing keyword.
C2_Witness ==
    /\ label = "data_presentation"
    /\ slide.has_chart /\ ~slide.has_table
    /\ C1_Process(slide) /\ C1_Closing(slide)

=============================================================================
